---- MODULE Spec2Model ----
(***************************************************************************)
(* Model of tangent_agent.py: RoleContext, Goal and TangentAgent.          *)
(*                                                                         *)
(* Representation of the program's values                                  *)
(*  - a string is a sequence of one-character strings, so that lower() and *)
(*    the substring test `in` are computed and not assumed;                *)
(*  - None, where a name is expected, is the one-element sequence NoneName *)
(*    whose element is no character;                                       *)
(*  - a float is a fixed-point integer: trait_sigma and a skew coefficient *)
(*    in tenths, a score in hundredths.  A weighted score of an agent with *)
(*    n role layers is therefore an integer in units of                    *)
(*    1 / (ScoreScale * CoefScale * CoefScale^n), see UnitsPerOne;         *)
(*  - the wall clock (time.time()) is the variable now, counted in ticks   *)
(*    of 100 * ln 2 seconds, the half-life of the default decay rate 0.01: *)
(*    math.exp(-0.01 * elapsed) is exactly 1 / 2^elapsed for elapsed in    *)
(*    ticks.  The clock is the environment's: it may stand still between   *)
(*    two calls, advance, or be set back.  A call is short against a tick: *)
(*    every time.time() read within one call returns the same now.  The    *)
(*    product score * exp(...) is rounded toward zero to the score unit.   *)
(*  - category and subcategory are stored and printed only; they are left  *)
(*    out of a goal.                                                       *)
(*  - a dict is the sequence of its values in insertion order (the order   *)
(*    Python iterates it in).                                              *)
(***************************************************************************)
EXTENDS Integers, Sequences, FiniteSets, TLC

VARIABLES
    input_goals,    \* the `goals` argument handed to TangentAgent.__init__
    construct,      \* how the constructor ended: "ok" or "error"
    goals,          \* self.goals: the Goal objects in dict insertion order
    memory,         \* self.memory: the interpretations, oldest first
    role_context,   \* self.role_context.layered_role_skews
    now,            \* the value time.time() returns
    op,             \* the operation that ran last
    arg,            \* the argument it was called with
    ret,            \* what that operation returned
    perceive_calls  \* number of perceive calls made so far

vars == <<input_goals, construct, goals, memory, role_context, now, op, arg,
          ret, perceive_calls>>

---------------------------------------------------------------------------
(* Bounds of the model *)

MaxGoals == 2
MaxPerceive == 2
MaxTime == 1

(* Fixed-point scales *)

ScoreScale == 100
CoefScale == 10

(* Program constants, in the scales above *)

\* best_match[1] > 0.3, as 3 / ThresholdDen
ThresholdNum == 3
ThresholdDen == 10
\* reinforce(boost=0.5), as 5 / BoostDen
BoostNum == 5
BoostDen == 10
\* role.get(trait, 1.0) and skew = 1.0, in tenths
DefaultSkew == 10

---------------------------------------------------------------------------
(* Strings *)

NoneName == <<"None">>

Lower(c) ==
    CASE c = "A" -> "a"
      [] c = "B" -> "b"
      [] OTHER -> c

\* str.lower()
StrLower(s) == [i \in 1..Len(s) |-> Lower(s[i])]

\* Python's `sub in s` on strings: sub occurs as a contiguous run of s
StrIn(sub, s) ==
    \E i \in 0..(Len(s) - Len(sub)) : SubSeq(s, i + 1, i + Len(sub)) = sub

---------------------------------------------------------------------------
(* Arithmetic *)

RECURSIVE Pow(_, _)
Pow(b, n) == IF n <= 0 THEN 1 ELSE b * Pow(b, n - 1)

\* integer quotient rounded toward zero
QuotT(a, b) == IF a >= 0 THEN a \div b ELSE -((-a) \div b)

\* ExpDecay with the sign of the exponent lost: math.exp(rate * elapsed)
ExpDecay_sign_lost(score, elapsed) ==
    IF elapsed >= 0 THEN score * Pow(2, elapsed)
                    ELSE QuotT(score, Pow(2, -elapsed))

\* score * math.exp(-rate * elapsed), elapsed in half-lives
ExpDecay(score, elapsed) ==
    IF elapsed >= 0 THEN QuotT(score, Pow(2, elapsed))
                    ELSE score * Pow(2, -elapsed)

---------------------------------------------------------------------------
(* RoleContext *)

\* role.get(trait, 1.0)
RoleGet(role, trait) ==
    IF trait \in DOMAIN role THEN role[trait] ELSE DefaultSkew

\* RoleContext.skew_for: the product over the layers, in units CoefScale^n
RECURSIVE skew_for(_, _)
skew_for(layers, trait) ==
    IF layers = <<>> THEN 1
    ELSE RoleGet(Head(layers), trait) * skew_for(Tail(layers), trait)

\* how many units of a weighted score make 1.0 for this role context
UnitsPerOne(layers) == ScoreScale * CoefScale * Pow(CoefScale, Len(layers))

---------------------------------------------------------------------------
(* Goal *)

\* Goal.__init__
NewGoal(a, t) ==
    [name |-> a.name, trait |-> a.trait, trait_sigma |-> a.trait_sigma,
     score |-> a.initial_score, last_updated |-> t]

\* Goal.decay(rate=0.01)
decay(g, t) ==
    [g EXCEPT !.score = ExpDecay(g.score, t - g.last_updated),
              !.last_updated = t]

\* boost * self.trait_sigma, in score units
BoostAmount(g) == (BoostNum * g.trait_sigma * ScoreScale) \div (BoostDen * CoefScale)

\* reinforce taking the boost away: self.score -= boost * self.trait_sigma
reinforce_subtracting(g, t) ==
    [g EXCEPT !.score = g.score - BoostAmount(g), !.last_updated = t]

\* Goal.reinforce(boost=0.5)
reinforce(g, t) ==
    [g EXCEPT !.score = g.score + BoostAmount(g), !.last_updated = t]

\* Goal.weighted_score(role_context)
weighted_score(g, layers) == g.score * g.trait_sigma * skew_for(layers, g.trait)

---------------------------------------------------------------------------
(* TangentAgent *)

\* index of the goal named n in the dict, 0 if it is no key
KeyIndex(d, n) ==
    IF \E i \in 1..Len(d) : d[i].name = n
    THEN CHOOSE i \in 1..Len(d) : d[i].name = n
    ELSE 0

\* {g.name: g for g in goals}: a repeated key keeps its first position and
\* takes the later value
RECURSIVE DictOf(_, _)
DictOf(gs, acc) ==
    IF gs = <<>> THEN acc
    ELSE LET g == Head(gs)
             k == KeyIndex(acc, g.name)
         IN DictOf(Tail(gs), IF k = 0 THEN Append(acc, g)
                                      ELSE [acc EXCEPT ![k] = g])

\* TangentAgent._decay_goals
decay_goals(d, t) == [i \in 1..Len(d) |-> decay(d[i], t)]

\* _assess_relevance with the operands of `in` exchanged:
\* if stimulus.lower() in keyword
RECURSIVE assess_relevance_in_exchanged(_, _, _)
assess_relevance_in_exchanged(d, layers, stimulus) ==
    IF d = <<>> THEN <<>>
    ELSE LET g == Head(d)
             rest == assess_relevance_in_exchanged(Tail(d), layers, stimulus)
         IN IF StrIn(StrLower(stimulus), StrLower(g.name))
            THEN <<[name |-> g.name, score |-> weighted_score(g, layers)]>> \o rest
            ELSE rest

\* TangentAgent._assess_relevance: the (name, relevance) items of the map,
\* in insertion order
RECURSIVE assess_relevance(_, _, _)
assess_relevance(d, layers, stimulus) ==
    IF d = <<>> THEN <<>>
    ELSE LET g == Head(d)
             rest == assess_relevance(Tail(d), layers, stimulus)
         IN IF StrIn(StrLower(g.name), StrLower(stimulus))
            THEN <<[name |-> g.name, score |-> weighted_score(g, layers)]>> \o rest
            ELSE rest

\* a maximum search that keeps the last of several maximal items
RECURSIVE MaxFrom_last(_, _)
MaxFrom_last(best, items) ==
    IF items = <<>> THEN best
    ELSE MaxFrom_last(IF Head(items).score >= best.score THEN Head(items) ELSE best,
                      Tail(items))

\* max(items, key=lambda kv: kv[1], default=...): the first item whose key
\* no other item exceeds
RECURSIVE MaxFrom(_, _)
MaxFrom(best, items) ==
    IF items = <<>> THEN best
    ELSE MaxFrom(IF Head(items).score > best.score THEN Head(items) ELSE best,
                 Tail(items))

best_match(items) ==
    IF items = <<>> THEN [name |-> NoneName, score |-> 0]
    ELSE MaxFrom(Head(items), Tail(items))

\* best_match[1] > 0.3
Aligned(score, layers) == score * ThresholdDen > ThresholdNum * UnitsPerOne(layers)

\* the interpretation dict of perceive
Interpret(d, layers, stimulus) ==
    LET bm == best_match(assess_relevance(d, layers, stimulus))
    IN [stimulus |-> stimulus, best_goal |-> bm.name,
        relevance_score |-> bm.score, aligned |-> Aligned(bm.score, layers)]

\* the reinforcement with the aligned test left out:
\* if best_match[0] in self.goals
ReinforceBest_unconditional(d, interp, t) ==
    IF KeyIndex(d, interp.best_goal) # 0
    THEN [d EXCEPT ![KeyIndex(d, interp.best_goal)] = reinforce(@, t)]
    ELSE d

\* if interpretation["aligned"] and best_match[0] in self.goals: reinforce
ReinforceBest(d, interp, t) ==
    IF interp.aligned /\ KeyIndex(d, interp.best_goal) # 0
    THEN [d EXCEPT ![KeyIndex(d, interp.best_goal)] = reinforce(@, t)]
    ELSE d

\* the record put first: self.memory.insert(0, interpretation)
Remember_first(mem, interp) == <<interp>> \o mem

\* self.memory.append(interpretation)
Remember(mem, interp) == Append(mem, interp)

\* an insertion that puts a goal before the goals of equal key: the order
\* of sorted(...)[::-1] on an ascending sort
RECURSIVE InsertDesc_before_equal(_, _, _)
InsertDesc_before_equal(x, sorted, layers) ==
    IF sorted = <<>> THEN <<x>>
    ELSE IF weighted_score(Head(sorted), layers) > weighted_score(x, layers)
         THEN <<Head(sorted)>> \o InsertDesc_before_equal(x, Tail(sorted), layers)
         ELSE <<x>> \o sorted

\* sorted(seq, key=..., reverse=True): stable, by descending key
RECURSIVE InsertDesc(_, _, _)
InsertDesc(x, sorted, layers) ==
    IF sorted = <<>> THEN <<x>>
    ELSE IF weighted_score(Head(sorted), layers) >= weighted_score(x, layers)
         THEN <<Head(sorted)>> \o InsertDesc(x, Tail(sorted), layers)
         ELSE <<x>> \o sorted

RECURSIVE SortedDesc(_, _)
SortedDesc(d, layers) ==
    IF d = <<>> THEN <<>>
    ELSE InsertDesc(d[Len(d)], SortedDesc(SubSeq(d, 1, Len(d) - 1), layers), layers)

\* act() reading the oldest record: latest = self.memory[0]
ActText_oldest(mem) ==
    IF mem = <<>> THEN <<"Waiting for stimuli...">>
    ELSE LET latest == mem[1]
         IN IF latest.aligned
            THEN <<"Reinforcing '">> \o latest.best_goal \o <<"': aligned with '">>
                 \o latest.stimulus \o <<"'.">>
            ELSE <<"Holding stimulus '">> \o latest.stimulus
                 \o <<"'--not yet actionable.">>

\* the text act() returns, as the pieces the f-string joins (the em dash of
\* the holding message is written --)
ActText(mem) ==
    IF mem = <<>> THEN <<"Waiting for stimuli...">>
    ELSE LET latest == mem[Len(mem)]
         IN IF latest.aligned
            THEN <<"Reinforcing '">> \o latest.best_goal \o <<"': aligned with '">>
                 \o latest.stimulus \o <<"'.">>
            ELSE <<"Holding stimulus '">> \o latest.stimulus
                 \o <<"'--not yet actionable.">>

---------------------------------------------------------------------------
(* Inputs *)

\* Goal(...) argument tuples
GoalArgs == {
    [name |-> <<"a">>,      trait |-> "t",    trait_sigma |-> 10, initial_score |-> 100],
    [name |-> <<"A">>,      trait |-> "None", trait_sigma |-> 10, initial_score |-> 100],
    [name |-> <<"a", "b">>, trait |-> "t",    trait_sigma |-> 20, initial_score |-> 10],
    [name |-> <<"a">>,      trait |-> "u",    trait_sigma |-> 5,  initial_score |-> -100] }

RECURSIVE SeqsUpTo(_, _)
SeqsUpTo(S, n) ==
    IF n = 0 THEN {<<>>}
    ELSE LET shorter == SeqsUpTo(S, n - 1)
         IN shorter \cup {Append(s, x) : s \in {q \in shorter : Len(q) = n - 1}, x \in S}

\* layered_role_skews lists
RoleContexts == {
    <<>>,
    <<[x \in {"t"} |-> 12], [x \in {"t", "u"} |-> IF x = "t" THEN 15 ELSE 8]>> }

Stimuli == { <<"B">>, <<"A">>, <<"x", "A", "b">> }

---------------------------------------------------------------------------
(* The state machine *)

\* TangentAgent.__init__, the goals having been constructed just before
Init ==
    /\ input_goals \in SeqsUpTo(GoalArgs, MaxGoals)
    /\ role_context \in RoleContexts
    /\ now = 0
    /\ goals = DictOf([i \in 1..Len(input_goals) |-> NewGoal(input_goals[i], now)], <<>>)
    /\ memory = <<>>
    /\ construct = "ok"
    /\ op = "init"
    /\ arg = <<>>
    /\ ret = <<>>
    /\ perceive_calls = 0

\* TangentAgent.perceive(stimulus)
perceive(stimulus) ==
    /\ perceive_calls < MaxPerceive
    /\ LET decayed == decay_goals(goals, now)
           interp == Interpret(decayed, role_context, stimulus)
       IN /\ goals' = ReinforceBest(decayed, interp, now)
          /\ memory' = Remember(memory, interp)
          /\ ret' = interp
    /\ op' = "perceive"
    /\ arg' = stimulus
    /\ perceive_calls' = perceive_calls + 1
    /\ UNCHANGED <<input_goals, construct, role_context, now>>

\* prioritized_goals() reordering the goals it owns instead of a copy
prioritized_goals_in_place ==
    /\ ret' = SortedDesc(goals, role_context)
    /\ goals' = SortedDesc(goals, role_context)
    /\ op' = "prioritized_goals"
    /\ arg' = <<>>
    /\ UNCHANGED <<input_goals, construct, memory, role_context, now,
                   perceive_calls>>

\* TangentAgent.prioritized_goals()
prioritized_goals ==
    /\ ret' = SortedDesc(goals, role_context)
    /\ op' = "prioritized_goals"
    /\ arg' = <<>>
    /\ UNCHANGED <<input_goals, construct, goals, memory, role_context, now,
                   perceive_calls>>

\* TangentAgent.act()
act ==
    /\ ret' = ActText(memory)
    /\ op' = "act"
    /\ arg' = <<>>
    /\ UNCHANGED <<input_goals, construct, goals, memory, role_context, now,
                   perceive_calls>>

\* time passes between two calls
ClockAdvance ==
    /\ now < MaxTime
    /\ now' = now + 1
    /\ UNCHANGED <<input_goals, construct, goals, memory, role_context, op, arg,
                   ret, perceive_calls>>

\* the wall clock is set back between two calls
ClockSetBack ==
    /\ now > 0
    /\ now' = now - 1
    /\ UNCHANGED <<input_goals, construct, goals, memory, role_context, op, arg,
                   ret, perceive_calls>>

Next ==
    \/ \E s \in Stimuli : perceive(s)
    \/ prioritized_goals
    \/ act
    \/ ClockAdvance
    \/ ClockSetBack

Spec == Init /\ [][Next]_vars

\* the same program under a clock that never runs backwards
NextMonotonic ==
    \/ \E s \in Stimuli : perceive(s)
    \/ prioritized_goals
    \/ act
    \/ ClockAdvance

SpecMonotonic == Init /\ [][NextMonotonic]_vars

---------------------------------------------------------------------------
(* Vocabulary of the properties *)

\* the goal's lower-cased name is a substring of the lower-cased stimulus
NameMatches(g, stimulus) == StrIn(StrLower(g.name), StrLower(stimulus))

\* the score decay leaves a goal with, when perceive runs at this instant
DecayedScore(g) == ExpDecay(g.score, now - g.last_updated)

\* decayed score * trait_sigma * role skew
DecayedWeight(g) == DecayedScore(g) * g.trait_sigma * skew_for(role_context, g.trait)

\* score * trait_sigma * role skew of a goal as it stands
Weight(g) == g.score * g.trait_sigma * skew_for(role_context, g.trait)

\* a weighted score exceeds 0.3
Above03(w) == 10 * w > 3 * UnitsPerOne(role_context)

\* 0.5 * trait_sigma, in score units
HalfSigma(g) == (g.trait_sigma * ScoreScale) \div (2 * CoefScale)

\* this step is a perceive call
PerceiveStep == perceive_calls' = perceive_calls + 1

\* the record the history holds last
Latest == memory[Len(memory)]

---------------------------------------------------------------------------
(* C1: a perceive(stimulus) call never adds the boost to a goal whose      *)
(* lower-cased name is not a substring of the lower-cased stimulus; the    *)
(* call leaves such a goal with exactly its decayed score.                 *)
C1_NoReinforceWithoutMatch ==
    [][PerceiveStep =>
         /\ Len(goals') = Len(goals)
         /\ \A i \in 1..Len(goals) :
              ~NameMatches(goals[i], arg') =>
                 /\ goals'[i].name = goals[i].name
                 /\ goals'[i].score = DecayedScore(goals[i])]_vars

\* a perceive call reinforced one goal while another goal did not match
C1_Witness ==
    /\ op = "perceive"
    /\ ret.aligned
    /\ \E i \in 1..Len(goals) : ~NameMatches(goals[i], arg)

(* C2: in every perceive call the recorded aligned flag is true exactly    *)
(* when the recorded relevance_score exceeds 0.3; when it is true the goal *)
(* named in best_goal, and no other, ends 0.5 * trait_sigma above its      *)
(* decayed score, and when it is false every goal ends at its decayed      *)
(* score.                                                                  *)
C2_AlignedIffReinforced ==
    [][PerceiveStep =>
         LET r == memory'[Len(memory')]
         IN /\ r.aligned = Above03(r.relevance_score)
            /\ Len(goals') = Len(goals)
            /\ r.aligned => \E i \in 1..Len(goals) : goals[i].name = r.best_goal
            /\ \A i \in 1..Len(goals) :
                 goals'[i].score =
                    IF r.aligned /\ goals[i].name = r.best_goal
                    THEN DecayedScore(goals[i]) + HalfSigma(goals[i])
                    ELSE DecayedScore(goals[i])]_vars

\* a perceive call with two matching goals reinforced one of them
C2_Witness ==
    /\ op = "perceive"
    /\ ret.aligned
    /\ Cardinality({i \in 1..Len(goals) : NameMatches(goals[i], arg)}) >= 2

(* C3: perceive records as best_goal the first goal, in insertion order,   *)
(* among the matching goals of maximal decayed weighted score, and that    *)
(* maximum as relevance_score; when no goal matches it records best_goal   *)
(* None, relevance_score 0 and aligned false.                              *)
C3_BestGoalIsFirstMaximum ==
    [][PerceiveStep =>
         LET r == memory'[Len(memory')]
             M == {i \in 1..Len(goals) : NameMatches(goals[i], arg')}
         IN IF M = {}
            THEN r.best_goal = NoneName /\ r.relevance_score = 0 /\ ~r.aligned
            ELSE \E i \in M :
                   /\ r.best_goal = goals[i].name
                   /\ r.relevance_score = DecayedWeight(goals[i])
                   /\ \A j \in M : DecayedWeight(goals[j]) <= DecayedWeight(goals[i])
                   /\ \A j \in M : j < i =>
                        DecayedWeight(goals[j]) < DecayedWeight(goals[i])]_vars

\* two matching goals tied for the maximum and the earlier one was recorded
\* (and reinforced: its score less the boost is the score it was chosen on)
C3_Witness ==
    /\ op = "perceive"
    /\ ret.aligned
    /\ \E i, j \in 1..Len(goals) :
         /\ i < j
         /\ NameMatches(goals[i], arg) /\ NameMatches(goals[j], arg)
         /\ ret.best_goal = goals[i].name
         /\ (goals[i].score - HalfSigma(goals[i])) * goals[i].trait_sigma
               * skew_for(role_context, goals[i].trait) = Weight(goals[j])

\* two of the goals handed to the constructor have the same name
HasDuplicateNames(gs) ==
    \E i, j \in 1..Len(gs) : i < j /\ gs[i].name = gs[j].name

(* C4: constructing an agent from a collection holding two goals of the    *)
(* same name is reported as an error, and a construction that succeeds     *)
(* keeps every goal of the collection in the goal mapping.                 *)
C4_DuplicateNamesReported ==
    /\ HasDuplicateNames(input_goals) => construct = "error"
    /\ construct = "ok" => Len(goals) = Len(input_goals)

(* C5: the history is empty after construction, a perceive call appends    *)
(* exactly the record it returns, which carries the call's stimulus, no    *)
(* other step changes the history, and it holds as many records as         *)
(* perceive was called.                                                    *)
C5_HistoryAppendOnly ==
    /\ memory = <<>>
    /\ [][/\ PerceiveStep =>
               /\ memory' = Append(memory, ret')
               /\ ret'.stimulus = arg'
          /\ ~PerceiveStep => memory' = memory]_vars
    /\ [](Len(memory) = perceive_calls)

\* two different records were appended and another operation ran since
C5_Witness ==
    /\ Len(memory) = 2
    /\ memory[1] # memory[2]
    /\ op = "act"

(* C6 as stated: every goal's score is non-negative in every reachable     *)
(* state, the state right after construction included.                     *)
C6_ScoreNonNegative ==
    \A i \in 1..Len(goals) : goals[i].score >= 0

\* every goal handed to the constructor was given a non-negative score
InitialScoresNonNegative ==
    \A i \in 1..Len(input_goals) : input_goals[i].initial_score >= 0

(* C6 amended: when every goal is constructed with a non-negative          *)
(* initial_score (and a positive trait_sigma), every goal's score is       *)
(* non-negative in every reachable state.                                  *)
C6_ScoreNonNegativeFromNonNegative ==
    InitialScoresNonNegative => \A i \in 1..Len(goals) : goals[i].score >= 0

\* after two perceive calls, the later one having reinforced a goal, with
\* time having passed before one of them
C6_Witness ==
    /\ InitialScoresNonNegative
    /\ perceive_calls = 2
    /\ op = "perceive"
    /\ ret.aligned
    /\ \E i \in 1..Len(goals) : goals[i].last_updated > 0

(* C7: act() returns the waiting message exactly when perceive was never   *)
(* called; otherwise the reinforcement message naming the latest record's  *)
(* best_goal and stimulus when that record is aligned and the holding      *)
(* message naming its stimulus when it is not, as it is whenever the last  *)
(* stimulus matched no goal name.                                          *)
C7_ActReadsLatestOnly ==
    op = "act" =>
       /\ (ret = <<"Waiting for stimuli...">>) <=> (perceive_calls = 0)
       /\ perceive_calls > 0 =>
            /\ Latest.aligned =>
                 ret = <<"Reinforcing '">> \o Latest.best_goal
                       \o <<"': aligned with '">> \o Latest.stimulus \o <<"'.">>
            /\ ~Latest.aligned =>
                 ret = <<"Holding stimulus '">> \o Latest.stimulus
                       \o <<"'--not yet actionable.">>
            /\ (\A i \in 1..Len(goals) : ~NameMatches(goals[i], Latest.stimulus)) =>
                 ret = <<"Holding stimulus '">> \o Latest.stimulus
                       \o <<"'--not yet actionable.">>

\* act() ran on a history whose earlier record is aligned and whose latest
\* record, of a stimulus matching no goal, is not
C7_Witness ==
    /\ op = "act"
    /\ Len(memory) = 2
    /\ memory[1].aligned
    /\ ~memory[2].aligned
    /\ goals # <<>>
    /\ \A i \in 1..Len(goals) : ~NameMatches(goals[i], memory[2].stimulus)

(* C8: prioritized_goals() returns every owned goal exactly once, by       *)
(* non-increasing weighted score, goals of equal weighted score in their   *)
(* insertion order.                                                        *)
C8_PrioritizedStableDescending ==
    op = "prioritized_goals" =>
       /\ Len(ret) = Len(goals)
       /\ \A i \in 1..Len(goals) :
            Cardinality({k \in 1..Len(ret) : ret[k] = goals[i]}) = 1
       /\ \A k, l \in 1..Len(ret) :
            k < l =>
               /\ Weight(ret[k]) >= Weight(ret[l])
               /\ Weight(ret[k]) = Weight(ret[l]) =>
                    \E i, j \in 1..Len(goals) :
                       i < j /\ goals[i] = ret[k] /\ goals[j] = ret[l]

\* prioritized_goals() ran on goals two of which have the same weighted score
C8_Witness ==
    /\ op = "prioritized_goals"
    /\ \E i, j \in 1..Len(goals) : i < j /\ Weight(goals[i]) = Weight(goals[j])

(* C9: a call of prioritized_goals() or act() leaves every goal (its name, *)
(* score, last_updated and trait_sigma), the role context and the history  *)
(* unchanged.                                                              *)
C9_QueriesReadOnly ==
    [][(now' = now /\ op' \in {"act", "prioritized_goals"}) =>
          /\ goals' = goals
          /\ role_context' = role_context
          /\ memory' = memory]_vars

\* a query ran after a perceive call that reinforced a goal, on goals that
\* are not in priority order
C9_Witness ==
    /\ op = "prioritized_goals"
    /\ perceive_calls > 0
    /\ Latest.aligned
    /\ ret # goals

(* C10 as stated (under a clock that never runs backwards, positive        *)
(* trait_sigma and skews): a goal whose weighted score is at most 0.3 is   *)
(* not reinforced by any later step, its score never increases, and its    *)
(* weighted score stays at most 0.3.                                       *)
C10_BelowThresholdAbsorbing ==
    [][Len(goals') = Len(goals) /\
       \A i \in 1..Len(goals) :
          ~Above03(Weight(goals[i])) =>
             /\ goals'[i].score <= goals[i].score
             /\ ~Above03(Weight(goals'[i]))]_vars

(* C10 amended: the same of a goal whose score is non-negative.            *)
C10_BelowThresholdAbsorbingNonNegative ==
    [][Len(goals') = Len(goals) /\
       \A i \in 1..Len(goals) :
          (goals[i].score >= 0 /\ ~Above03(Weight(goals[i]))) =>
             /\ goals'[i].score <= goals[i].score
             /\ goals'[i].score >= 0
             /\ ~Above03(Weight(goals'[i]))]_vars

\* a goal that started above the threshold has decayed to it, and a perceive
\* call whose stimulus names it has left it there
C10_Witness ==
    /\ op = "perceive"
    /\ \E i \in 1..Len(goals) :
         /\ NameMatches(goals[i], arg)
         /\ goals[i].score >= 0
         /\ ~Above03(Weight(goals[i]))
         /\ \E k \in 1..Len(input_goals) :
              /\ input_goals[k].name = goals[i].name
              /\ Above03(Weight(NewGoal(input_goals[k], 0)))

====
